---- MODULE Spec2Model ----
(***************************************************************************)
(* Model of ws_client.py: two websocket ingestion tasks feed one           *)
(* asyncio.Queue; the main coroutine accumulates per-instrument price      *)
(* lists, computes a Pearson correlation when both lists hold COMP_AMOUNT  *)
(* prices, and checks the ETH price change every PRICE_CHANGE_TIME         *)
(* seconds.                                                                *)
(*                                                                         *)
(* Prices are Python floats (IEEE-754 binary64).  The model keeps the      *)
(* full 53-bit significand: a float is a record [neg, m, e] of value       *)
(* (-1)^neg * m * 2^e, where m is a natural number held as a sequence of   *)
(* 15-bit limbs (least significant first) so that every intermediate       *)
(* product fits TLC's integers.  Every arithmetic operator rounds to       *)
(* nearest, ties to even, as the hardware does.                            *)
(***************************************************************************)
EXTENDS Integers, Sequences, FiniteSets, TLC

(***************************************************************************)
(* The form  CHOOSE res \in {body : n \in {expr}} : TRUE  is body with n   *)
(* standing for the value of expr.  The bound variable holds the value,    *)
(* so expr is evaluated once however often body uses n.                    *)
(***************************************************************************)
(***************************************************************************)
(* Natural numbers of arbitrary size: sequences of limbs, least            *)
(* significant first, without leading zero limbs; <<>> is zero.            *)
(***************************************************************************)
LimbBase == 2^15

RECURSIVE NatBitLen(_)
NatBitLen(n) == IF n = 0 THEN 0 ELSE 1 + NatBitLen(n \div 2)

LimbBits == NatBitLen(LimbBase) - 1

RECURSIVE BNormFrom(_, _)
BNormFrom(a, n) ==
    IF n = 0 THEN <<>>
    ELSE IF a[n] = 0 THEN BNormFrom(a, n - 1) ELSE SubSeq(a, 1, n)

BNorm(a) == (CHOOSE res \in {
               BNormFrom(x, Len(x)) :
               x \in {a}} : TRUE)

RECURSIVE BFromNat(_)
BFromNat(n) ==
    IF n = 0 THEN <<>> ELSE <<n % LimbBase>> \o BFromNat(n \div LimbBase)

BLimb(a, i) == IF i <= Len(a) THEN a[i] ELSE 0

BMaxLen(a, b) == IF Len(a) >= Len(b) THEN Len(a) ELSE Len(b)

RECURSIVE BAddFrom(_, _, _, _)
BAddFrom(a, b, i, c) ==
    IF i > BMaxLen(a, b)
    THEN IF c = 0 THEN <<>> ELSE <<c>>
    ELSE (CHOOSE res \in {
            <<addSum % LimbBase>> \o BAddFrom(a, b, i + 1, addSum \div LimbBase) :
            addSum \in {BLimb(a, i) + BLimb(b, i) + c}} : TRUE)

BAdd(a, b) == (CHOOSE res \in {
                 BAddFrom(x, y, 1, 0) :
                 x \in {a}, y \in {b}} : TRUE)

\* a - b for a >= b
RECURSIVE BSubFrom(_, _, _, _)
BSubFrom(a, b, i, c) ==
    IF i > Len(a) THEN <<>>
    ELSE (CHOOSE res \in {
            IF subDiff < 0
            THEN <<subDiff + LimbBase>> \o BSubFrom(a, b, i + 1, 1)
            ELSE <<subDiff>> \o BSubFrom(a, b, i + 1, 0) :
            subDiff \in {a[i] - BLimb(b, i) - c}} : TRUE)

BSub(a, b) == (CHOOSE res \in {
                 BNorm(BSubFrom(x, y, 1, 0)) :
                 x \in {a}, y \in {b}} : TRUE)

\* -1, 0, 1 as a < b, a = b, a > b
RECURSIVE BCmpFrom(_, _, _)
BCmpFrom(a, b, i) ==
    IF i = 0 THEN 0
    ELSE IF a[i] < b[i] THEN -1
    ELSE IF a[i] > b[i] THEN 1
    ELSE BCmpFrom(a, b, i - 1)

BCmp(a, b) ==
    (CHOOSE res \in {
       IF Len(x) < Len(y) THEN -1
       ELSE IF Len(x) > Len(y) THEN 1
       ELSE BCmpFrom(x, y, Len(x)) :
       x \in {a}, y \in {b}} : TRUE)

\* a * k for 0 <= k < LimbBase
RECURSIVE BMulSmallFrom(_, _, _, _)
BMulSmallFrom(a, k, i, c) ==
    IF i > Len(a)
    THEN IF c = 0 THEN <<>> ELSE <<c>>
    ELSE (CHOOSE res \in {
            <<mulSum % LimbBase>> \o BMulSmallFrom(a, k, i + 1, mulSum \div LimbBase) :
            mulSum \in {a[i] * k + c}} : TRUE)

BMulSmall(a, k) ==
    (CHOOSE res \in {
       IF y = 0 THEN <<>> ELSE BMulSmallFrom(x, y, 1, 0) :
       x \in {a}, y \in {k}} : TRUE)

BShlLimbs(a, j) ==
    (CHOOSE res \in {
       IF x = <<>> THEN x ELSE [i \in 1..j |-> 0] \o x :
       x \in {a}} : TRUE)

RECURSIVE BMulFrom(_, _, _)
BMulFrom(a, b, i) ==
    IF i > Len(b) THEN <<>>
    ELSE BAdd(BShlLimbs(BMulSmall(a, b[i]), i - 1), BMulFrom(a, b, i + 1))

BMul(a, b) == (CHOOSE res \in {
                 BMulFrom(x, y, 1) :
                 x \in {a}, y \in {b}} : TRUE)

\* floor(a / d) for 0 < d < LimbBase, most significant limb first
RECURSIVE BDivSmallFrom(_, _, _, _)
BDivSmallFrom(a, d, i, r) ==
    IF i = 0 THEN <<>>
    ELSE (CHOOSE res \in {
            BDivSmallFrom(a, d, i - 1, divNum % d) \o <<divNum \div d>> :
            divNum \in {r * LimbBase + a[i]}} : TRUE)

BDivSmall(a, d) ==
    (CHOOSE res \in {
       BNorm(BDivSmallFrom(x, y, Len(x), 0)) :
       x \in {a}, y \in {d}} : TRUE)

BShl(a, k) ==
    (CHOOSE res \in {
       BShlLimbs(BMulSmall(a, 2^(n % LimbBits)), n \div LimbBits) :
       n \in {k}} : TRUE)

BShr(a, k) ==
    (CHOOSE res \in {
       IF n \div LimbBits >= Len(x) THEN <<>>
       ELSE BDivSmall(SubSeq(x, (n \div LimbBits) + 1, Len(x)), 2^(n % LimbBits)) :
       x \in {a}, n \in {k}} : TRUE)

BBitLen(a) ==
    (CHOOSE res \in {
       IF x = <<>> THEN 0 ELSE LimbBits * (Len(x) - 1) + NatBitLen(x[Len(x)]) :
       x \in {a}} : TRUE)

BIsOdd(a) == (CHOOSE res \in {
                x # <<>> /\ x[1] % 2 = 1 :
                x \in {a}} : TRUE)

\* 2a + bit
BDouble(a, bit) ==
    (CHOOSE res \in {
       IF x = <<>> THEN (IF bit = 0 THEN <<>> ELSE <<1>>)
       ELSE [BMulSmall(x, 2) EXCEPT ![1] = @ + bit] :
       x \in {a}} : TRUE)

\* the value of a bignum below 2^31 as an integer
BToNat(a) ==
    (CHOOSE res \in {
       BLimb(x, 1) + BLimb(x, 2) * LimbBase + BLimb(x, 3) * LimbBase * LimbBase :
       x \in {a}} : TRUE)

\* one quotient limb: [digit, rem] with r = digit * d + rem, for r < d * LimbBase.
\* A divisor of several limbs is estimated from its leading 16 bits, which
\* never overshoots, and the estimate is then corrected upwards.
RECURSIVE BDivFix(_, _, _)
BDivFix(r, d, digit) ==
    (CHOOSE res \in {
       IF BCmp(x, d) >= 0
       THEN BDivFix(BSub(x, d), d, n + 1)
       ELSE [digit |-> n, rem |-> x] :
       x \in {r}, n \in {digit}} : TRUE)

BDivStep(r, d) ==
    (CHOOSE res \in {
       IF Len(d) = 1
       THEN (CHOOSE res \in {
               [digit |-> n \div d[1], rem |-> BFromNat(n % d[1])] :
               n \in {BToNat(x)}} : TRUE)
       ELSE (CHOOSE res \in {
               (CHOOSE res \in {
                  BDivFix(BSub(x, BMulSmall(d, guess)), d, guess) :
                  guess \in {BToNat(BShr(x, lowBits))
                                \div (BToNat(BShr(d, lowBits)) + 1)}} : TRUE) :
               lowBits \in {BBitLen(d) - 16}} : TRUE) :
       x \in {r}} : TRUE)

\* long division of the limbs i.. of a, most significant first: [quo, rem]
\* with quo not yet normalised
RECURSIVE BDivFrom(_, _, _)
BDivFrom(a, d, i) ==
    IF i > Len(a) THEN [quo |-> <<>>, rem |-> <<>>]
    ELSE (CHOOSE res \in {
            (CHOOSE res \in {
               [quo |-> <<step.digit>> \o upper.quo, rem |-> step.rem] :
               step \in {BDivStep(BNorm(<<a[i]>> \o upper.rem), d)}} : TRUE) :
            upper \in {BDivFrom(a, d, i + 1)}} : TRUE)

\* [quo, rem] with a = quo * d + rem and rem < d, for d > 0
BDivMod(a, d) ==
    (CHOOSE res \in {
       (CHOOSE res \in {
          [quo |-> BNorm(divided.quo), rem |-> divided.rem] :
          divided \in {BDivFrom(x, y, 1)}} : TRUE) :
       x \in {a}, y \in {d}} : TRUE)

\* floor(sqrt(n)) of an integer below 2^31, by Newton's iteration from above
RECURSIVE NatSqrtFrom(_, _)
NatSqrtFrom(n, x) ==
    (CHOOSE res \in {
       IF nextX >= x THEN x ELSE NatSqrtFrom(n, nextX) :
       nextX \in {(x + n \div x) \div 2}} : TRUE)

NatSqrt(n) == (CHOOSE res \in {
                 IF v = 0 THEN 0 ELSE NatSqrtFrom(v, 2^16) :
                 v \in {n}} : TRUE)

\* floor(sqrt(a)) by Newton's iteration from a start above the root
RECURSIVE BSqrtFrom(_, _)
BSqrtFrom(a, x) ==
    (CHOOSE res \in {
       IF BCmp(nextX, x) >= 0 THEN x ELSE BSqrtFrom(a, nextX) :
       nextX \in {BShr(BAdd(x, BDivMod(a, x).quo), 1)}} : TRUE)

\* [root, rem] with a = root^2 + rem and rem <= 2 * root
BSqrt(a) ==
    (CHOOSE res \in {
       (CHOOSE res \in {
          (CHOOSE res \in {
             (CHOOSE res \in {
                (CHOOSE res \in {
                   [root |-> root, rem |-> BSub(x, BMul(root, root))] :
                   root \in {BSqrtFrom(x, start)}} : TRUE) :
                start \in {BShl(BFromNat(NatSqrt(BToNat(BShr(x, 2 * lowHalf))) + 1),
                                lowHalf)}} : TRUE) :
             lowHalf \in {IF bitLen <= 30 THEN 0 ELSE (bitLen - 29) \div 2}} : TRUE) :
          bitLen \in {BBitLen(x)}} : TRUE) :
       x \in {a}} : TRUE)

(***************************************************************************)
(* Python floats.  A float is [neg, m, e]: zero has m = <<>> and e = 0,    *)
(* any other value has a significand m of exactly MantBits bits.  The      *)
(* prices and statistics of the program stay far from the exponent         *)
(* limits, so subnormals, infinities and NaN do not occur.                 *)
(***************************************************************************)
MantBits == 53

FZero == [neg |-> FALSE, m |-> <<>>, e |-> 0]

\* rounding of a significand M of more than MantBits bits
FRoundLong(neg, M, e, drop) ==
    (CHOOSE res \in {
       (CHOOSE res \in {
          (CHOOSE res \in {
             (CHOOSE res \in {
                IF BBitLen(rounded) > MantBits
                THEN [neg |-> neg, m |-> BShr(rounded, 1), e |-> e + drop + 1]
                ELSE [neg |-> neg, m |-> rounded, e |-> e + drop] :
                rounded \in {IF roundUp THEN BAdd(kept, <<1>>) ELSE kept}} : TRUE) :
             roundUp \in {BIsOdd(kept1) /\ (BShl(kept1, drop - 1) # M \/ BIsOdd(kept))}} : TRUE) :
          kept \in {BShr(kept1, 1)}} : TRUE) :
       kept1 \in {BShr(M, drop - 1)}} : TRUE)

\* the float nearest to (-1)^neg * M * 2^e, ties to even
FRound(neg, M, e) ==
    (CHOOSE res \in {
       (CHOOSE res \in {
          IF x = <<>> THEN FZero
          ELSE IF bits <= MantBits
          THEN [neg |-> neg, m |-> BShl(x, MantBits - bits),
                e |-> y - (MantBits - bits)]
          ELSE FRoundLong(neg, x, y, bits - MantBits) :
          bits \in {BBitLen(x)}} : TRUE) :
       x \in {M}, y \in {e}} : TRUE)

FFromInt(n) ==
    (CHOOSE res \in {
       FRound(v < 0, BFromNat(IF v < 0 THEN -v ELSE v), 0) :
       v \in {n}} : TRUE)

FIsZero(a) == a.m = <<>>

FNeg(a) == (CHOOSE res \in {
              IF FIsZero(x) THEN x ELSE [x EXCEPT !.neg = ~@] :
              x \in {a}} : TRUE)

FAbs(a) == [a EXCEPT !.neg = FALSE]

\* a + b for a, b # 0 within 60 binary places of each other
FAddAligned(a, b, minExp) ==
    (CHOOSE res \in {
       (CHOOSE res \in {
          IF a.neg = b.neg THEN FRound(a.neg, BAdd(alignA, alignB), minExp)
          ELSE IF order = 0 THEN FZero
          ELSE IF order > 0 THEN FRound(a.neg, BSub(alignA, alignB), minExp)
          ELSE FRound(b.neg, BSub(alignB, alignA), minExp) :
          order \in {BCmp(alignA, alignB)}} : TRUE) :
       alignA \in {BShl(a.m, a.e - minExp)}, alignB \in {BShl(b.m, b.e - minExp)}} : TRUE)

\* a + b; an operand more than 60 binary places below the other cannot
\* change the rounded sum
FAdd(a, b) ==
    (CHOOSE res \in {
       IF FIsZero(x) THEN y
       ELSE IF FIsZero(y) THEN x
       ELSE IF x.e - y.e > 60 THEN x
       ELSE IF y.e - x.e > 60 THEN y
       ELSE FAddAligned(x, y, IF x.e <= y.e THEN x.e ELSE y.e) :
       x \in {a}, y \in {b}} : TRUE)

FSub(a, b) == FAdd(a, FNeg(b))

FMul(a, b) ==
    (CHOOSE res \in {
       IF FIsZero(x) \/ FIsZero(y) THEN FZero
       ELSE FRound(x.neg # y.neg, BMul(x.m, y.m), x.e + y.e) :
       x \in {a}, y \in {b}} : TRUE)

\* a / b for b # 0: at least MantBits + 3 quotient bits and a sticky bit,
\* then rounded
FDiv(a, b) ==
    (CHOOSE res \in {
       IF FIsZero(x) THEN FZero
       ELSE (CHOOSE res \in {
               FRound(x.neg # y.neg,
                      BDouble(quotient.quo, IF quotient.rem = <<>> THEN 0 ELSE 1),
                      x.e - y.e - (MantBits + 4)) :
               quotient \in {BDivMod(BShl(x.m, MantBits + 3), y.m)}} : TRUE) :
       x \in {a}, y \in {b}} : TRUE)

\* sqrt(a) for a > 0
FSqrt(a) ==
    (CHOOSE res \in {
       (CHOOSE res \in {
          (CHOOSE res \in {
             FRound(FALSE,
                    BDouble(sqrtRes.root, IF sqrtRes.rem = <<>> THEN 0 ELSE 1),
                    ((x.e - scale) \div 2) - 1) :
             sqrtRes \in {BSqrt(BShl(x.m, scale))}} : TRUE) :
          scale \in {IF (x.e - (MantBits + 5)) % 2 = 0
                     THEN MantBits + 5 ELSE MantBits + 6}} : TRUE) :
       x \in {a}} : TRUE)

\* -1, 0, 1 as a < b, a = b, a > b
FCmpAbs(a, b) ==
    IF FIsZero(a) THEN (IF FIsZero(b) THEN 0 ELSE -1)
    ELSE IF FIsZero(b) THEN 1
    ELSE IF a.e < b.e THEN -1
    ELSE IF a.e > b.e THEN 1
    ELSE BCmp(a.m, b.m)

FCmp(a, b) ==
    (CHOOSE res \in {
       IF x.neg /\ ~y.neg THEN -1
       ELSE IF ~x.neg /\ y.neg THEN 1
       ELSE IF x.neg THEN 0 - FCmpAbs(x, y)
       ELSE FCmpAbs(x, y) :
       x \in {a}, y \in {b}} : TRUE)

\* fmod(a, b) for a >= 0 and b > 0: the exact remainder
FMod(a, b) ==
    (CHOOSE res \in {
       IF FCmpAbs(x, y) < 0 THEN x
       ELSE FRound(FALSE, BDivMod(BShl(x.m, x.e - y.e), y.m).rem, y.e) :
       x \in {a}, y \in {b}} : TRUE)

\* floor(a) for a >= 0
FFloor(a) ==
    (CHOOSE res \in {
       IF FIsZero(x) \/ x.e >= 0 THEN x
       ELSE IF x.e <= 0 - MantBits THEN FZero
       ELSE FRound(FALSE, BShr(x.m, 0 - x.e), 0) :
       x \in {a}} : TRUE)

\* a // b of the interpreter (float_divmod) for a >= 0 and b > 0
FFloorDiv(a, b) ==
    (CHOOSE res \in {
       (CHOOSE res \in {
          (CHOOSE res \in {
             IF FIsZero(divAB) THEN FZero
             ELSE IF FCmp(FSub(divAB, floorDiv), FDiv(FFromInt(1), FFromInt(2))) > 0
             THEN FAdd(floorDiv, FFromInt(1))
             ELSE floorDiv :
             floorDiv \in {FFloor(divAB)}} : TRUE) :
          divAB \in {FDiv(FSub(x, FMod(x, y)), y)}} : TRUE) :
       x \in {a}, y \in {b}} : TRUE)

\* float(s) for the decimal string of d tenths ("0.7" for d = 7): the float
\* nearest to d / 10
float(d) == FDiv(FFromInt(d), FFromInt(10))

(***************************************************************************)
(* Program constants.  COMP_AMOUNT is 20 and PRICE_CHANGE_TIME is 60 in    *)
(* the source; the model runs with smaller values of both.  With three     *)
(* prices per window the float statistics already show every outcome       *)
(* the claims are about.                                                   *)
(***************************************************************************)
COMP_AMOUNT == 3
PRICE_CHANGE_TIME == 2
PRICE_CHANGE_PERCENT == 1
BORDER_VALUE == float(3)

(***************************************************************************)
(* pearson_correlation(x, y)                                               *)
(***************************************************************************)
\* sum(x): from the integer 0, left to right
RECURSIVE sum_upto(_, _)
sum_upto(x, n) == IF n = 0 THEN FZero ELSE FAdd(sum_upto(x, n - 1), x[n])

sum(x) == sum_upto(x, Len(x))

\* pow(v, 0.5): a float for v >= 0, a complex number for v < 0
pow_half(v) ==
    (CHOOSE res \in {
       IF FIsZero(x) THEN [kind |-> "float", val |-> FZero]
       ELSE IF x.neg THEN [kind |-> "complex", val |-> FZero]
       ELSE [kind |-> "float", val |-> FSqrt(x)] :
       x \in {v}} : TRUE)

\* deviation == 0
IsZeroDev(dev) == dev.kind = "float" /\ FIsZero(dev.val)

\* The result is the integer 0 (kind "int"), a float, or a complex number.
pearson_correlation(x, y) ==
    (CHOOSE res \in {
       (CHOOSE res \in {
          (CHOOSE res \in {
             IF IsZeroDev(x_deviation) \/ IsZeroDev(y_deviation)
             THEN [kind |-> "int", val |-> FZero]
             ELSE IF x_deviation.kind = "complex" \/ y_deviation.kind = "complex"
             THEN [kind |-> "complex", val |-> FZero]
             ELSE [kind |-> "float",
                   val  |-> FDiv(FSub(mean_x_y, FMul(mean_x, mean_y)),
                                 FMul(x_deviation.val, y_deviation.val))] :
             x_deviation \in {pow_half(FSub(mean_x_x, FMul(mean_x, mean_x)))},
             y_deviation \in {pow_half(FSub(mean_y_y, FMul(mean_y, mean_y)))}} : TRUE) :
          mean_x_y \in {FDiv(sum(x_y), FFromInt(Len(x_y)))},
          mean_x_x \in {FDiv(sum(x_x), FFromInt(Len(x_x)))},
          mean_y_y \in {FDiv(sum(y_y), FFromInt(Len(y_y)))}} : TRUE) :
       mean_x \in {FDiv(sum(x), FFromInt(Len(x)))},
       mean_y \in {FDiv(sum(y), FFromInt(Len(y)))},
       x_x \in {[i \in 1..Len(x) |-> FMul(x[i], x[i])]},
       y_y \in {[i \in 1..Len(y) |-> FMul(y[i], y[i])]},
       x_y \in {[i \in 1..Len(x) |-> FMul(x[i], y[i])]}} : TRUE)

\* coeff >= BORDER_VALUE, for a coefficient that is not complex
AtLeastBorder(c) == c.kind = "float" /\ FCmp(c.val, BORDER_VALUE) >= 0

\* line 79: abs(old_price - new_price) * 100 // old_price
price_change_percents(old, new) ==
    FFloorDiv(FMul(FAbs(FSub(old, new)), FFromInt(100)), old)

(***************************************************************************)
(* The environment: what the two streams and the reference service may     *)
(* deliver.  Prices are decimal strings, given in tenths.                  *)
(***************************************************************************)
MaxTicks  == 4      \* messages a stream delivers
MaxClock  == 3000   \* last server time, in milliseconds
TickMs    == 1000   \* granularity of the server clock, in milliseconds
MaxElapse == 2      \* clock ticks that may pass between two time requests
MaxQueue  == 2      \* ticks the streams put while main() is suspended
MsPerSec  == 1000

Sources == {"BTC", "ETH"}

StreamPrices == [BTC |-> {1, 7}, ETH |-> {7, 10}]

RefPrices == {1000, 1010, 1021}

\* The float results are computed once, as explicit tables, and looked up
\* afterwards.
RECURSIVE FloatTable(_)
FloatTable(S) ==
    IF S = {} THEN <<>>
    ELSE CHOOSE res \in {(d :> float(d)) @@ FloatTable(S \ {d}) :
                         d \in {CHOOSE k \in S : TRUE}} : TRUE

float_table == FloatTable(UNION {StreamPrices[src] : src \in Sources})

\* the windows of COMP_AMOUNT prices a stream can fill
FullWindows(src) == [1..COMP_AMOUNT -> {float_table[d] : d \in StreamPrices[src]}]

RECURSIVE PearsonTable(_)
PearsonTable(S) ==
    IF S = {} THEN <<>>
    ELSE CHOOSE res \in {(pair :> pearson_correlation(pair[1], pair[2]))
                            @@ PearsonTable(S \ {pair}) :
                         pair \in {CHOOSE k \in S : TRUE}} : TRUE

pearson_table == PearsonTable(FullWindows("BTC") \X FullWindows("ETH"))

RECURSIVE PercentTable(_)
PercentTable(S) ==
    IF S = {} THEN <<>>
    ELSE CHOOSE res \in {(pair :> price_change_percents(float(pair[1]), float(pair[2])))
                            @@ PercentTable(S \ {pair}) :
                         pair \in {CHOOSE k \in S : TRUE}} : TRUE

percent_table == PercentTable(RefPrices \X RefPrices)

(***************************************************************************)
(* State.  pc is the statement of main() the coroutine is at:              *)
(*   "start"       line 103, the first get_server_time()                   *)
(*   "check_time"  lines 106-114, the periodic horizon check               *)
(*   "check_full"  lines 118-128, the window-full check                    *)
(*   "get"         line 132, calling channel.get()                         *)
(*   "waiting"     line 132, suspended in channel.get() on an empty queue  *)
(*   "terminated"  an exception left main(): the process has ended         *)
(* requests.get() blocks the event loop, and channel.get() returns         *)
(* without suspending when the queue holds an item, so the unpack tasks    *)
(* run only while main() is "waiting".                                     *)
(***************************************************************************)
VARIABLES
    btc_prices,        \* list of floats
    eth_prices,        \* list of floats
    channel,           \* asyncio.Queue: sequence of <<source, price>>
    start_time,        \* the horizon timer, in seconds
    current_time,      \* the time sampled at line 106, in seconds
    eth_price_change,  \* result of the last price-change computation
    coeff,             \* result of the last correlation
    pc,
    tasks,             \* per source, "running" or "failed"
    clock,             \* server time in milliseconds at the last request
    printed,           \* what the last step of main() printed
    called,            \* the functions the last step of main() called, in order
    delivered,         \* per source, the number of ticks put on the channel
    pending,           \* per source, the prices put and not yet discarded
    taken,             \* ticks main() has taken from the channel
    discarded,         \* prices dropped when the lists were reset
    old_price,         \* local of get_eth_price_change_percents (line 76)
    new_price,         \* local of get_eth_price_change_percents (line 77)
    passed             \* the arguments the last step of main() passed to
                       \* pearson_correlation

vars == <<btc_prices, eth_prices, channel, start_time, current_time,
          eth_price_change, coeff, pc, tasks, clock, printed, called,
          delivered, pending, taken, discarded, old_price, new_price,
          passed>>

NoCoeff == [kind |-> "none", val |-> FZero]

Init ==
    /\ btc_prices = <<>>
    /\ eth_prices = <<>>
    /\ channel = <<>>
    /\ start_time = 0
    /\ current_time = 0
    /\ eth_price_change = FZero
    /\ coeff = NoCoeff
    /\ pc = "start"
    /\ tasks = [s \in Sources |-> "running"]
    /\ clock = 0
    /\ printed = "nothing"
    /\ called = <<>>
    /\ delivered = [s \in Sources |-> 0]
    /\ pending = [s \in Sources |-> <<>>]
    /\ taken = 0
    /\ discarded = 0
    /\ old_price = FZero
    /\ new_price = FZero
    /\ passed = <<>>

\* the serverTime values the next request may return
ServerTimes == {t \in {clock + k * TickMs : k \in 0..MaxElapse} : t <= MaxClock}

\* the server time left in milliseconds
get_server_time_ms(serverTime) == serverTime

\* get_server_time(): serverTime // 1000
get_server_time(serverTime) == serverTime \div MsPerSec

(***************************************************************************)
(* unpack(ws, source): one round of the task's loop.  recv() and           *)
(* json.loads() deliver a price, which is put on the unbounded queue.      *)
(***************************************************************************)
\* a queue of capacity one that drops what does not fit
put_drop(queue, item) == IF Len(queue) >= 1 THEN queue ELSE Append(queue, item)

\* a queue that hands out the newest item first
put_front(queue, item) == <<item>> \o queue

\* channel.put(item): the item joins the end of the queue
put(queue, item) == Append(queue, item)

\* a task that also appends the price to the list of its source itself
unpack_direct(source) ==
    /\ pc = "waiting"
    /\ tasks[source] = "running"
    /\ delivered[source] < MaxTicks
    /\ Len(channel) < MaxQueue
    /\ \E p \in StreamPrices[source] :
          /\ channel' = put(channel, <<source, float_table[p]>>)
          /\ pending' = [pending EXCEPT ![source] = Append(@, float_table[p])]
          /\ IF source = "BTC"
             THEN /\ btc_prices' = Append(btc_prices, float_table[p])
                  /\ UNCHANGED eth_prices
             ELSE /\ eth_prices' = Append(eth_prices, float_table[p])
                  /\ UNCHANGED btc_prices
    /\ delivered' = [delivered EXCEPT ![source] = @ + 1]
    /\ UNCHANGED <<start_time, current_time, eth_price_change, coeff, pc, tasks,
                   clock, printed, called, taken, discarded, old_price,
                   new_price, passed>>

\* lines 89-94: one round of the loop
unpack(source) ==
    /\ pc = "waiting"
    /\ tasks[source] = "running"
    /\ delivered[source] < MaxTicks
    /\ Len(channel) < MaxQueue
    /\ \E p \in StreamPrices[source] :
          /\ channel' = put(channel, <<source, float_table[p]>>)
          /\ pending' = [pending EXCEPT ![source] = Append(@, float_table[p])]
    /\ delivered' = [delivered EXCEPT ![source] = @ + 1]
    /\ UNCHANGED <<btc_prices, eth_prices, start_time, current_time,
                   eth_price_change, coeff, pc, tasks, clock, printed, called,
                   taken, discarded, old_price, new_price, passed>>

\* recv() or json.loads() raises: the exception ends this task only
unpack_fail(source) ==
    /\ pc = "waiting"
    /\ tasks[source] = "running"
    /\ tasks' = [tasks EXCEPT ![source] = "failed"]
    /\ UNCHANGED <<btc_prices, eth_prices, channel, start_time, current_time,
                   eth_price_change, coeff, pc, clock, printed, called,
                   delivered, pending, taken, discarded, old_price, new_price,
                   passed>>

(***************************************************************************)
(* main()                                                                  *)
(***************************************************************************)
\* line 103: start_time = get_server_time(); a failed request raises
main_start ==
    /\ pc = "start"
    /\ \/ \E t \in ServerTimes :
             /\ clock' = t
             /\ start_time' = get_server_time(t)
             /\ pc' = "check_time"
       \/ /\ pc' = "terminated"
          /\ UNCHANGED <<clock, start_time>>
    /\ printed' = "nothing"
    /\ called' = <<"get_server_time">>
    /\ passed' = <<>>
    /\ UNCHANGED <<btc_prices, eth_prices, channel, current_time,
                   eth_price_change, coeff, tasks, delivered, pending, taken,
                   discarded, old_price, new_price>>

\* the horizon test with > in place of >=
horizon_elapsed_strict(now) == now - start_time > PRICE_CHANGE_TIME

\* line 107: current_time - start_time >= PRICE_CHANGE_TIME
horizon_elapsed(now) == now - start_time >= PRICE_CHANGE_TIME

\* line 112: eth_price_change > PRICE_CHANGE_PERCENT
exceeds_percent(percent) == FCmp(percent, FFromInt(PRICE_CHANGE_PERCENT)) > 0

\* the periodic check without line 110: start_time is not moved
horizon_check_no_reset(t) ==
    LET now == get_server_time(t)
    IN  /\ current_time' = now
        /\ IF horizon_elapsed(now)
           THEN /\ called' = <<"get_server_time", "get_eth_price_change_percents">>
                /\ \/ \E t2 \in {u \in ServerTimes : u >= t}, old \in RefPrices,
                         new \in RefPrices :
                         LET percent == percent_table[<<old, new>>]
                         IN  /\ clock' = t2
                             /\ eth_price_change' = percent
                             /\ UNCHANGED start_time
                             /\ printed' = IF exceeds_percent(percent)
                                           THEN "price change" ELSE "nothing"
                             /\ pc' = "check_full"
                   \/ /\ clock' = t
                      /\ pc' = "terminated"
                      /\ printed' = "nothing"
                      /\ UNCHANGED <<eth_price_change, start_time>>
           ELSE /\ clock' = t
                /\ pc' = "check_full"
                /\ printed' = "nothing"
                /\ called' = <<"get_server_time">>
                /\ UNCHANGED <<eth_price_change, start_time>>

\* lines 106-114 when the request of line 106 succeeds with serverTime t
horizon_check(t) ==
    LET now == get_server_time(t)
    IN  /\ current_time' = now
        /\ IF horizon_elapsed(now)
           THEN /\ called' = <<"get_server_time", "get_eth_price_change_percents">>
                /\ \/ \E t2 \in {u \in ServerTimes : u >= t}, old \in RefPrices,
                         new \in RefPrices :
                         LET percent == percent_table[<<old, new>>]
                         IN  /\ clock' = t2
                             /\ eth_price_change' = percent
                             /\ start_time' = now
                             /\ printed' = IF exceeds_percent(percent)
                                           THEN "price change" ELSE "nothing"
                             /\ pc' = "check_full"
                   \* a request of get_eth_price_change_percents fails
                   \/ /\ clock' = t
                      /\ pc' = "terminated"
                      /\ printed' = "nothing"
                      /\ UNCHANGED <<eth_price_change, start_time>>
           ELSE /\ clock' = t
                /\ pc' = "check_full"
                /\ printed' = "nothing"
                /\ called' = <<"get_server_time">>
                /\ UNCHANGED <<eth_price_change, start_time>>

main_check_time ==
    /\ pc = "check_time"
    /\ \/ \E t \in ServerTimes : horizon_check(t)
       \* the request of line 106 fails
       \/ /\ pc' = "terminated"
          /\ printed' = "nothing"
          /\ called' = <<"get_server_time">>
          /\ UNCHANGED <<clock, current_time, eth_price_change, start_time>>
    /\ passed' = <<>>
    /\ UNCHANGED <<btc_prices, eth_prices, channel, coeff, tasks, delivered,
                   pending, taken, discarded, old_price, new_price>>

\* the window test with > in place of >=
window_full_strict == Len(eth_prices) > COMP_AMOUNT /\ Len(btc_prices) > COMP_AMOUNT

\* line 118: len(eth_prices) >= COMP_AMOUNT and len(btc_prices) >= COMP_AMOUNT
window_full == Len(eth_prices) >= COMP_AMOUNT /\ Len(btc_prices) >= COMP_AMOUNT

\* no reset: both lists stay as they are
keep_lists == UNCHANGED <<btc_prices, eth_prices>>

\* a reset that forgets eth_prices
reset_btc_only ==
    /\ btc_prices' = <<>>
    /\ UNCHANGED eth_prices

\* lines 122-123: btc_prices = []; eth_prices = []
reset_lists ==
    /\ btc_prices' = <<>>
    /\ eth_prices' = <<>>

\* a slice that takes the newest COMP_AMOUNT prices
last_n(prices) == SubSeq(prices, Len(prices) - COMP_AMOUNT + 1, Len(prices))

\* line 120: prices[:COMP_AMOUNT]
first_n(prices) == SubSeq(prices, 1, COMP_AMOUNT)

\* lines 118-128
main_check_full ==
    /\ pc = "check_full"
    /\ IF window_full
       THEN LET c == pearson_table[<<first_n(btc_prices), first_n(eth_prices)>>]
            IN  /\ coeff' = c
                /\ passed' = <<first_n(btc_prices), first_n(eth_prices)>>
                /\ reset_lists
                /\ pending' = [BTC |-> SubSeq(pending["BTC"], Len(btc_prices) + 1,
                                              Len(pending["BTC"])),
                               ETH |-> SubSeq(pending["ETH"], Len(eth_prices) + 1,
                                              Len(pending["ETH"]))]
                /\ discarded' = discarded + Len(btc_prices) + Len(eth_prices)
                /\ IF c.kind = "complex"
                   \* line 125 compares a complex number: TypeError
                   THEN /\ pc' = "terminated"
                        /\ printed' = "nothing"
                        /\ called' = <<"pearson_correlation">>
                        /\ UNCHANGED <<clock, start_time>>
                   ELSE IF AtLeastBorder(c)
                   THEN /\ called' = <<"pearson_correlation", "get_server_time">>
                        /\ \/ \E t \in ServerTimes :
                                 /\ clock' = t
                                 /\ start_time' = get_server_time(t)
                                 /\ printed' = "correlation"
                                 /\ pc' = "check_time"
                           \* the request of line 127 fails
                           \/ /\ pc' = "terminated"
                              /\ printed' = "nothing"
                              /\ UNCHANGED <<clock, start_time>>
                   ELSE /\ pc' = "check_time"
                        /\ printed' = "nothing"
                        /\ called' = <<"pearson_correlation">>
                        /\ UNCHANGED <<clock, start_time>>
       ELSE /\ pc' = "get"
            /\ printed' = "nothing"
            /\ called' = <<>>
            /\ passed' = <<>>
            /\ UNCHANGED <<btc_prices, eth_prices, coeff, clock, start_time,
                           pending, discarded>>
    /\ UNCHANGED <<channel, current_time, eth_price_change, tasks, delivered,
                   taken, old_price, new_price>>

\* the branches of lines 134-137 with the two lists exchanged
take_tick_swapped ==
    LET ticker == Head(channel)[1]
        data   == Head(channel)[2]
    IN  /\ channel' = Tail(channel)
        /\ taken' = taken + 1
        /\ IF ticker = "BTC"
           THEN /\ eth_prices' = Append(eth_prices, data)
                /\ UNCHANGED btc_prices
           ELSE IF ticker = "ETH"
           THEN /\ btc_prices' = Append(btc_prices, data)
                /\ UNCHANGED eth_prices
           ELSE UNCHANGED <<btc_prices, eth_prices>>
        /\ pc' = "check_time"

\* a take that goes straight back to channel.get(), past both checks
take_tick_again ==
    LET ticker == Head(channel)[1]
        data   == Head(channel)[2]
    IN  /\ channel' = Tail(channel)
        /\ taken' = taken + 1
        /\ IF ticker = "BTC"
           THEN /\ btc_prices' = Append(btc_prices, data)
                /\ UNCHANGED eth_prices
           ELSE IF ticker = "ETH"
           THEN /\ eth_prices' = Append(eth_prices, data)
                /\ UNCHANGED btc_prices
           ELSE UNCHANGED <<btc_prices, eth_prices>>
        /\ pc' = "get"

\* lines 132-137 once the queue holds an item
take_tick ==
    LET ticker == Head(channel)[1]
        data   == Head(channel)[2]
    IN  /\ channel' = Tail(channel)
        /\ taken' = taken + 1
        /\ IF ticker = "BTC"
           THEN /\ btc_prices' = Append(btc_prices, data)
                /\ UNCHANGED eth_prices
           ELSE IF ticker = "ETH"
           THEN /\ eth_prices' = Append(eth_prices, data)
                /\ UNCHANGED btc_prices
           ELSE UNCHANGED <<btc_prices, eth_prices>>
        /\ pc' = "check_time"

\* line 132: channel.get() returns at once when the queue is not empty
main_get ==
    /\ pc = "get"
    /\ IF channel # <<>>
       THEN take_tick
       ELSE /\ pc' = "waiting"
            /\ UNCHANGED <<btc_prices, eth_prices, channel, taken>>
    /\ printed' = "nothing"
    /\ called' = <<>>
    /\ passed' = <<>>
    /\ UNCHANGED <<start_time, current_time, eth_price_change, coeff, tasks,
                   clock, delivered, pending, discarded, old_price, new_price>>

\* line 132: a put woke the suspended channel.get()
main_resume ==
    /\ pc = "waiting"
    /\ channel # <<>>
    /\ take_tick
    /\ printed' = "nothing"
    /\ called' = <<>>
    /\ passed' = <<>>
    /\ UNCHANGED <<start_time, current_time, eth_price_change, coeff, tasks,
                   clock, delivered, pending, discarded, old_price, new_price>>

Next ==
    \/ main_start
    \/ main_check_time
    \/ main_check_full
    \/ main_get
    \/ main_resume
    \/ \E source \in Sources : unpack(source)
    \/ \E source \in Sources : unpack_fail(source)

Spec == Init /\ [][Next]_vars

(***************************************************************************)
(* get_eth_price_change_percents() on its own: the two lookups have        *)
(* returned, old_price and new_price hold the parsed prices (lines 76-77), *)
(* and the call returns the value of line 79.                              *)
(***************************************************************************)
\* prices the lookups may return, in tenths; 1000 is "100.0"
DetectorPrices == {7, 10, 100, 101, 102, 1000, 1005, 1009, 1010, 1020, 1021, 2000}

DetectorInit ==
    /\ Init!1 /\ Init!2 /\ Init!3 /\ Init!4 /\ Init!5 /\ Init!6 /\ Init!7
    /\ pc = "detector_call"
    /\ Init!9 /\ Init!10 /\ Init!11 /\ Init!12 /\ Init!13 /\ Init!14
    /\ Init!15 /\ Init!16 /\ Init!19
    /\ old_price \in {float(d) : d \in DetectorPrices}
    /\ new_price \in {float(d) : d \in DetectorPrices}

\* line 79
detector_return ==
    /\ pc = "detector_call"
    /\ eth_price_change' = price_change_percents(old_price, new_price)
    /\ pc' = "detector_returned"
    /\ UNCHANGED <<btc_prices, eth_prices, channel, start_time, current_time,
                   coeff, tasks, clock, printed, called, delivered, pending,
                   taken, discarded, old_price, new_price, passed>>

DetectorNext == detector_return

DetectorSpec == DetectorInit /\ [][DetectorNext]_vars

(***************************************************************************)
(* pearson_correlation(x, y) on its own: btc_prices and eth_prices hold    *)
(* the two arguments, as in the call of line 120, and coeff the result.    *)
(***************************************************************************)
MaxLen == 3   \* longest argument drawn from PearsonValues

PearsonValues == {FFromInt(1), FFromInt(2), FFromInt(3)}

OneToFive == <<FFromInt(1), FFromInt(2), FFromInt(3), FFromInt(4), FFromInt(5)>>

TwoToTen == <<FFromInt(2), FFromInt(4), FFromInt(6), FFromInt(8), FFromInt(10)>>

FiveToOne == <<FFromInt(5), FFromInt(4), FFromInt(3), FFromInt(2), FFromInt(1)>>

\* pairs of sequences of equal length n >= 2
PearsonInputs ==
    UNION {[1..n -> PearsonValues] \X [1..n -> PearsonValues] : n \in 2..MaxLen}
        \cup ({OneToFive, TwoToTen, FiveToOne} \X {OneToFive, TwoToTen, FiveToOne})

PearsonInit ==
    /\ \E pair \in PearsonInputs :
          /\ btc_prices = pair[1]
          /\ eth_prices = pair[2]
    /\ Init!3 /\ Init!4 /\ Init!5 /\ Init!6 /\ Init!7
    /\ pc = "pearson_call"
    /\ Init!9 /\ Init!10 /\ Init!11 /\ Init!12 /\ Init!13 /\ Init!14
    /\ Init!15 /\ Init!16 /\ Init!17 /\ Init!18 /\ Init!19

\* lines 37-54
pearson_return ==
    /\ pc = "pearson_call"
    /\ coeff' = pearson_correlation(btc_prices, eth_prices)
    /\ pc' = "pearson_returned"
    /\ UNCHANGED <<btc_prices, eth_prices, channel, start_time, current_time,
                   eth_price_change, tasks, clock, printed, called, delivered,
                   pending, taken, discarded, old_price, new_price, passed>>

PearsonNext == pearson_return

PearsonSpec == PearsonInit /\ [][PearsonNext]_vars

(***************************************************************************)
(* main() from the iteration after a correlation.  The first round has     *)
(* filled both lists, line 120 has computed the coefficient of FirstRound, *)
(* lines 122-123 have emptied the lists and nothing was printed; the       *)
(* counters of ticks start again from this state.                          *)
(***************************************************************************)
FirstRound ==
    << <<float_table[1], float_table[1], float_table[7]>>,
       <<float_table[7], float_table[10], float_table[7]>> >>

SecondRoundInit ==
    /\ Init!1 /\ Init!2 /\ Init!3 /\ Init!4 /\ Init!5 /\ Init!6
    /\ coeff = pearson_correlation(FirstRound[1], FirstRound[2])
    /\ pc = "check_time"
    /\ Init!9 /\ Init!10 /\ Init!11
    /\ called = <<"pearson_correlation">>
    /\ Init!13 /\ Init!14 /\ Init!15 /\ Init!16 /\ Init!17 /\ Init!18
    /\ passed = FirstRound

SecondRoundNext ==
    \/ main_check_time
    \/ main_check_full
    \/ main_get
    \/ main_resume
    \/ \E source \in Sources : unpack(source)
    \/ \E source \in Sources : unpack_fail(source)

SecondRoundSpec == SecondRoundInit /\ [][SecondRoundNext]_vars

(***************************************************************************)
(* Properties                                                              *)
(***************************************************************************)
\* how often a step called pearson_correlation / the price-change detector
EngineCalls(seq) == Cardinality({i \in DOMAIN seq : seq[i] = "pearson_correlation"})

DetectorCalls(seq) ==
    Cardinality({i \in DOMAIN seq : seq[i] = "get_eth_price_change_percents"})

\* the prices of one instrument waiting on the channel, in queue order
RECURSIVE ChannelPrices(_, _)
ChannelPrices(queue, source) ==
    IF queue = <<>> THEN <<>>
    ELSE IF Head(queue)[1] = source
         THEN <<Head(queue)[2]>> \o ChannelPrices(Tail(queue), source)
         ELSE ChannelPrices(Tail(queue), source)

Window(source) == IF source = "BTC" THEN btc_prices ELSE eth_prices

IsConstant(w) == \A i, j \in DOMAIN w : w[i] = w[j]

BothExactlyFull ==
    Len(btc_prices) = COMP_AMOUNT /\ Len(eth_prices) = COMP_AMOUNT

\* abs(coeff) >= BORDER_VALUE
AbsAtLeastBorder(c) ==
    c.kind = "float" /\ FCmp(FAbs(c.val), BORDER_VALUE) >= 0

\* C1: from a state at the top of the loop in which both lists hold exactly
\* COMP_AMOUNT prices, the iteration reaches the window check with the lists
\* untouched and there calls pearson_correlation exactly once and leaves both
\* lists empty.
C1_NextIterationComputesAndClears ==
    [][(BothExactlyFull /\ pc \in {"check_time", "check_full"}) =>
          \/ pc' = "check_full" /\ UNCHANGED <<btc_prices, eth_prices>>
          \/ /\ EngineCalls(called') = 1
             /\ btc_prices' = <<>>
             /\ eth_prices' = <<>>]_vars

\* C2: after every correlation that produced a real number and left main()
\* running, the correlation line was printed exactly when the absolute value
\* of the coefficient is at least BORDER_VALUE.
C2_AlertIffAbsAtLeastBorder ==
    (/\ called # <<>>
     /\ called[1] = "pearson_correlation"
     /\ coeff.kind \in {"int", "float"}
     /\ pc = "check_time")
        => (printed = "correlation" <=> AbsAtLeastBorder(coeff))

\* C3: the periodic check of an iteration never ends main(): whatever the
\* reference service answers, control reaches the window check.
C3_ReferenceFailureSkipsEvaluation ==
    [][pc = "check_time" => pc' = "check_full"]_vars

\* C4, as claimed: neither list ever holds more than COMP_AMOUNT prices.
C4_WindowsAtMostN ==
    Len(btc_prices) <= COMP_AMOUNT /\ Len(eth_prices) <= COMP_AMOUNT

\* C4, amended: the two lists never both hold more than COMP_AMOUNT prices,
\* and main() takes a further tick only while one of them holds fewer than
\* COMP_AMOUNT: a list exceeds COMP_AMOUNT only by waiting for the other.
C4_ShorterWindowAtMostN ==
    /\ ~(Len(btc_prices) > COMP_AMOUNT /\ Len(eth_prices) > COMP_AMOUNT)
    /\ pc \in {"get", "waiting"} =>
          (Len(btc_prices) < COMP_AMOUNT \/ Len(eth_prices) < COMP_AMOUNT)

C4_Witness ==
    Len(btc_prices) > COMP_AMOUNT /\ Len(eth_prices) = COMP_AMOUNT

\* C5: in a periodic check that obtained the current time, the detector is
\* called once if current_time - start_time >= PRICE_CHANGE_TIME and not at
\* all otherwise; when it returns, the price-change line is printed exactly
\* when the percent is above PRICE_CHANGE_PERCENT and start_time becomes the
\* current_time of that check; below the horizon nothing is printed and
\* start_time stays.
C5_HorizonCheck ==
    [][pc = "check_time" =>
          LET elapsed == current_time' - start_time
              sampled == pc' = "check_full" \/ DetectorCalls(called') > 0
          IN  /\ sampled =>
                    /\ elapsed >= PRICE_CHANGE_TIME => DetectorCalls(called') = 1
                    /\ elapsed < PRICE_CHANGE_TIME => DetectorCalls(called') = 0
              /\ (pc' = "check_full" /\ elapsed >= PRICE_CHANGE_TIME) =>
                    /\ start_time' = current_time'
                    /\ printed' = "price change" <=>
                          FCmp(eth_price_change', FFromInt(PRICE_CHANGE_PERCENT)) > 0
              /\ (pc' = "check_full" /\ elapsed < PRICE_CHANGE_TIME) =>
                    /\ start_time' = start_time
                    /\ printed' = "nothing"
                    /\ eth_price_change' = eth_price_change]_vars

C5_Witness ==
    /\ pc = "check_full"
    /\ DetectorCalls(called) = 1
    /\ printed = "price change"
    /\ start_time = current_time
    /\ start_time >= PRICE_CHANGE_TIME

\* C6: pearson_correlation is called only in a step that starts with both
\* lists holding at least COMP_AMOUNT prices, and no step empties one list
\* without emptying the other.
C6_ComputeOnlyWhenBothFull ==
    [][/\ (called' # called /\ EngineCalls(called') > 0) =>
             /\ pc = "check_full"
             /\ Len(btc_prices) >= COMP_AMOUNT
             /\ Len(eth_prices) >= COMP_AMOUNT
       /\ (btc_prices # <<>> /\ btc_prices' = <<>>) => eth_prices' = <<>>
       /\ (eth_prices # <<>> /\ eth_prices' = <<>>) => btc_prices' = <<>>]_vars

C6_Witness ==
    /\ EngineCalls(called) = 1
    /\ coeff.kind # "none"
    /\ btc_prices = <<>>
    /\ eth_prices = <<>>
    /\ taken > 2 * COMP_AMOUNT

\* C7: every tick put on the channel is still on it, or was taken exactly
\* once and then appended to the list of its own instrument and to no other;
\* a step that takes a tick appends exactly that tick's price to exactly that
\* list.
C7_TickConsumedOnceIntoOwnWindow ==
    /\ [](/\ taken + Len(channel) = delivered["BTC"] + delivered["ETH"]
          /\ Len(btc_prices) + Len(eth_prices) + discarded = taken
          /\ \A s \in Sources :
                Len(Window(s)) + Len(ChannelPrices(channel, s)) = Len(pending[s]))
    /\ [][taken' # taken =>
             /\ taken' = taken + 1
             /\ channel # <<>>
             /\ channel' = Tail(channel)
             /\ IF Head(channel)[1] = "BTC"
                THEN /\ btc_prices' = Append(btc_prices, Head(channel)[2])
                     /\ eth_prices' = eth_prices
                ELSE /\ eth_prices' = Append(eth_prices, Head(channel)[2])
                     /\ btc_prices' = btc_prices]_vars

C7_Witness ==
    /\ btc_prices # <<>>
    /\ eth_prices # <<>>
    /\ channel # <<>>
    /\ taken >= COMP_AMOUNT

\* C8: the channel is first in, first out, so for each instrument the prices
\* in its list followed by its prices still on the channel are, in order, the
\* prices its stream delivered since the lists were last reset.
C8_FifoOrderPerInstrument ==
    /\ [](\A s \in Sources :
             Window(s) \o ChannelPrices(channel, s) = pending[s])
    /\ [][\/ channel' = channel
          \/ /\ Len(channel') = Len(channel) + 1
             /\ SubSeq(channel', 1, Len(channel)) = channel
          \/ /\ channel # <<>>
             /\ channel' = Tail(channel)]_vars

C8_Witness ==
    /\ Len(channel) >= 2
    /\ channel[1][1] # channel[2][1]
    /\ Len(btc_prices) >= 2
    /\ btc_prices[1] # btc_prices[2]
    /\ Len(eth_prices) >= 2
    /\ eth_prices[1] # eth_prices[2]

\* C9: once an unpack task has failed the process is over: main() takes no
\* further tick from the channel.
C9_TaskFailureEndsProcess ==
    [][(\E s \in Sources : tasks[s] = "failed") => taken' = taken]_vars

\* C10: when the window check runs with a constant sequence among the two
\* inputs of pearson_correlation, the result is the integer 0, main() keeps
\* running, prints nothing, leaves start_time alone and empties both lists.
C10_ZeroVarianceGivesSentinel ==
    [][(/\ pc = "check_full"
        /\ Len(btc_prices) >= COMP_AMOUNT
        /\ Len(eth_prices) >= COMP_AMOUNT
        /\ \/ IsConstant(SubSeq(btc_prices, 1, COMP_AMOUNT))
           \/ IsConstant(SubSeq(eth_prices, 1, COMP_AMOUNT)))
          => /\ coeff'.kind = "int"
             /\ pc' = "check_time"
             /\ printed' = "nothing"
             /\ start_time' = start_time
             /\ btc_prices' = <<>>
             /\ eth_prices' = <<>>]_vars

\* the whole percent of the move from old to new computed exactly, on the
\* rational values of the two floats: floor(100 * |new - old| / old)
ExactPercent(old, new) ==
    LET low  == IF old.e < new.e THEN old.e ELSE new.e
        oldN == BShl(old.m, old.e - low)
        newN == BShl(new.m, new.e - low)
        move == IF BCmp(newN, oldN) >= 0 THEN BSub(newN, oldN) ELSE BSub(oldN, newN)
    IN  FFromInt(BToNat(BDivMod(BMulSmall(move, 100), oldN).quo))

\* C11: for every old price > 0 and new price the detector returns
\* |new - old| * 100 / old truncated toward zero to a whole percent (taken
\* on the values the two floats hold); 100 and 101 give 1, 100 and 100.9
\* give 0, and every move below 1% gives 0.
C11_PercentIsTruncated ==
    pc = "detector_returned" =>
        /\ eth_price_change = ExactPercent(old_price, new_price)
        /\ (old_price = float(1000) /\ new_price = float(1010)) =>
               eth_price_change = FFromInt(1)
        /\ (old_price = float(1000) /\ new_price = float(1009)) =>
               eth_price_change = FFromInt(0)
        /\ FCmp(FMul(FAbs(FSub(new_price, old_price)), FFromInt(100)), old_price) < 0 =>
               eth_price_change = FFromInt(0)

\* -1 <= c <= 1 for a float c
InUnitRange(c) ==
    /\ FCmp(c, FFromInt(-1)) >= 0
    /\ FCmp(c, FFromInt(1)) <= 0

\* C12: for equal-length sequences x, y (n >= 2) of nonzero variance,
\* pearson_correlation(x, y) equals pearson_correlation(y, x) and lies in
\* [-1, 1]; pearson_correlation(x, x) is 1; [1,2,3,4,5] with [2,4,6,8,10]
\* gives 1 and with [5,4,3,2,1] gives -1.
C12_SymmetricInRangeExact ==
    (/\ pc = "pearson_returned"
     /\ ~IsConstant(btc_prices)
     /\ ~IsConstant(eth_prices))
        => /\ coeff = pearson_correlation(eth_prices, btc_prices)
           /\ coeff.kind = "float"
           /\ InUnitRange(coeff.val)
           /\ btc_prices = eth_prices => coeff.val = FFromInt(1)
           /\ (btc_prices = OneToFive /\ eth_prices = TwoToTen) =>
                  coeff.val = FFromInt(1)
           /\ (btc_prices = OneToFive /\ eth_prices = FiveToOne) =>
                  coeff.val = FFromInt(-1)

\* C13: a step of an unpack task (a tick put on the channel, or the task
\* ending) leaves both lists and start_time unchanged; a step that changes one
\* of the three is a step of main() and of no task; the tasks run only while
\* main() is suspended in channel.get(), and a step of main() runs at most one
\* computation (correlation or price change).
C13_OnlyMainMutatesWindowsAndTimer ==
    /\ [][(delivered' # delivered \/ tasks' # tasks) =>
             /\ UNCHANGED <<btc_prices, eth_prices, start_time>>
             /\ pc = "waiting"
             /\ pc' = pc
             /\ called' = called]_vars
    /\ [][(btc_prices' # btc_prices \/ eth_prices' # eth_prices
             \/ start_time' # start_time) =>
             /\ pc' # pc
             /\ delivered' = delivered
             /\ tasks' = tasks]_vars
    /\ [](EngineCalls(called) + DetectorCalls(called) <= 1)

C13_Witness ==
    /\ pc = "waiting"
    /\ channel # <<>>
    /\ btc_prices # <<>>
    /\ eth_prices # <<>>
    /\ start_time > 0
    /\ \E s \in Sources : delivered[s] = MaxTicks

\* C14: an iteration runs the horizon check first and the window check
\* right after it; main() reaches channel.get() only from a window check that
\* was false; a step that computes a correlation takes no tick and starts the
\* next iteration; a step that takes a tick takes one and starts the next
\* iteration.
C14_CheckOrderAndOneTick ==
    [][/\ (pc = "check_time" /\ pc' # pc) => pc' \in {"check_full", "terminated"}
       /\ (pc' = "check_full" /\ pc' # pc) => pc = "check_time"
       /\ (pc' = "get" /\ pc' # pc) => (pc = "check_full" /\ ~window_full)
       /\ (pc' = "waiting" /\ pc' # pc) => pc = "get"
       /\ (pc = "check_full" /\ window_full /\ pc' # pc) =>
             /\ EngineCalls(called') = 1
             /\ taken' = taken
             /\ channel' = channel
             /\ pc' \in {"check_time", "terminated"}
       /\ taken' # taken =>
             /\ pc \in {"get", "waiting"}
             /\ ~window_full
             /\ EngineCalls(called') = 0
             /\ taken' = taken + 1
             /\ pc' = "check_time"]_vars

C14_Witness ==
    /\ pc = "get"
    /\ coeff.kind # "none"
    /\ taken >= 2 * COMP_AMOUNT
    /\ channel # <<>>

\* C15: while main() is in a reference-service call (the get_server_time of
\* lines 103 and 106, the lookups of the detector, the get_server_time of line
\* 127) it is suspended and the unpack tasks can run: a task that has a
\* message to deliver and room on the channel can put its tick.
C15_TasksRunDuringReferenceCall ==
    \A source \in Sources :
        (/\ pc \in {"start", "check_time"}
         /\ tasks[source] = "running"
         /\ delivered[source] < MaxTicks
         /\ Len(channel) < MaxQueue)
            => ENABLED unpack(source)

\* C16: a window-full step that prints the correlation line sets start_time
\* to the server time of that moment, in seconds; a window-full step that
\* prints no correlation line leaves start_time unchanged, and so does every
\* step that takes a tick or puts one on the channel.
C16_TimerResetOnlyWithAlert ==
    [][/\ (pc = "check_full" /\ window_full /\ pc' # pc) =>
             IF printed' = "correlation"
             THEN start_time' = clock' \div MsPerSec
             ELSE start_time' = start_time
       /\ (pc = "check_full" /\ ~window_full) => start_time' = start_time
       /\ (taken' # taken \/ delivered' # delivered) =>
             start_time' = start_time]_vars

C16_Witness ==
    /\ pc = "check_time"
    /\ printed = "correlation"
    /\ start_time = clock \div MsPerSec
    /\ start_time > current_time

\* C17: a step that calls pearson_correlation passes it, as first argument,
\* the first COMP_AMOUNT prices the BTC stream delivered since the lists were
\* last reset and, as second argument, the first COMP_AMOUNT prices of the ETH
\* stream, each in arrival order; the result is the coefficient of exactly
\* these, and later prices of a list are passed to no call.
C17_EngineGetsFirstN ==
    [][(called' # called /\ EngineCalls(called') > 0) =>
          /\ Len(pending["BTC"]) >= COMP_AMOUNT
          /\ Len(pending["ETH"]) >= COMP_AMOUNT
          /\ passed' = <<SubSeq(pending["BTC"], 1, COMP_AMOUNT),
                         SubSeq(pending["ETH"], 1, COMP_AMOUNT)>>
          /\ coeff' = pearson_table[passed']
          /\ btc_prices' = <<>>
          /\ eth_prices' = <<>>]_vars

C17_Witness ==
    /\ passed # <<>>
    /\ discarded > 2 * COMP_AMOUNT
    /\ passed[1][1] # passed[1][COMP_AMOUNT]
    /\ passed[1] # passed[2]

\* C18: the step of main() right after a correlation finds both lists empty,
\* so the iteration that follows a correlation computes none and goes on to
\* channel.get(); and a correlation is computed only after at least
\* 2 * COMP_AMOUNT ticks were taken since the previous one (discarded is the
\* number of ticks taken up to the previous correlation).
C18_NoTwoCorrelationsInARow ==
    /\ [](EngineCalls(called) > 0 =>
             /\ btc_prices = <<>>
             /\ eth_prices = <<>>
             /\ pc \in {"check_time", "terminated"}
             /\ discarded = taken)
    /\ [][pc = "check_time" => UNCHANGED <<btc_prices, eth_prices, taken>>]_vars
    /\ [][(pc = "check_full" /\ btc_prices = <<>> /\ eth_prices = <<>>) =>
             /\ EngineCalls(called') = 0
             /\ pc' = "get"]_vars
    /\ [][(called' # called /\ EngineCalls(called') > 0) =>
             /\ EngineCalls(called) = 0
             /\ taken - discarded >= 2 * COMP_AMOUNT
             /\ taken' = taken]_vars

\* a second correlation has been computed
C18_Witness ==
    /\ EngineCalls(called) = 1
    /\ passed # FirstRound
    /\ taken >= 2 * COMP_AMOUNT
    /\ discarded = taken

\* C19: with a server clock that never goes back, start_time never
\* decreases and never exceeds the current server time; start_time is moved
\* only by line 103, by a periodic check that called the detector (to the
\* current_time of that check) and by a correlation alert (to the server time
\* of the alert), so it is the later of the last horizon evaluation and the
\* last alert; and the detector is called only when current_time is at least
\* PRICE_CHANGE_TIME seconds after it, hence never within PRICE_CHANGE_TIME
\* seconds after an alert.
C19_TimerMonotoneAndDetectorSpaced ==
    /\ [](pc # "start" => start_time <= clock \div MsPerSec)
    /\ [][clock' >= clock => start_time' >= start_time]_vars
    /\ [][start_time' # start_time =>
             \/ pc = "start"
             \/ /\ DetectorCalls(called') = 1
                /\ start_time' = current_time'
             \/ /\ printed' = "correlation"
                /\ start_time' = clock' \div MsPerSec]_vars
    /\ [][(called' # called /\ DetectorCalls(called') > 0) =>
             /\ current_time' - start_time >= PRICE_CHANGE_TIME
             /\ pc' = "check_full" => start_time' = current_time']_vars

\* the detector was called after a correlation alert
C19_Witness ==
    /\ pc = "check_full"
    /\ DetectorCalls(called) = 1
    /\ AtLeastBorder(coeff)
    /\ start_time = current_time
    /\ taken >= 2 * COMP_AMOUNT

\* C20: the channel never blocks or drops a put.  Whenever an unpack task is
\* scheduled with a message to deliver, its put is enabled whatever the length
\* of the channel (up to the bound MaxQueue of the model), the put makes the
\* channel one item longer with the new tick at its end, and every tick put is
\* on the channel until main() takes it: none is lost in between.
C20_PutNeverBlocksOrDrops ==
    /\ [](\A source \in Sources :
             (/\ pc = "waiting"
              /\ tasks[source] = "running"
              /\ delivered[source] < MaxTicks
              /\ Len(channel) < MaxQueue) => ENABLED unpack(source))
    /\ [](taken + Len(channel) = delivered["BTC"] + delivered["ETH"])
    /\ [][delivered' # delivered =>
             /\ Len(channel') = Len(channel) + 1
             /\ SubSeq(channel', 1, Len(channel)) = channel
             /\ \E source \in Sources :
                   /\ delivered'[source] = delivered[source] + 1
                   /\ channel'[Len(channel')][1] = source
             /\ taken' = taken]_vars
    /\ [][Len(channel') < Len(channel) =>
             /\ taken' = taken + 1
             /\ channel' = Tail(channel)]_vars

\* a put on a channel that already held a tick
C20_Witness ==
    /\ pc = "waiting"
    /\ Len(channel) = MaxQueue
    /\ taken > 0

====
